---- MODULE Spec2Model ----
(***************************************************************************)
(* Radial distribution featurizers of                                      *)
(* matminer/featurizers/structure/distribution.py:                         *)
(*   RadialDistributionFunction            (RDF)                           *)
(*   PartialRadialDistributionFunction     (PRDF)                          *)
(*   ElectronicRadialDistributionFunction  (ReDF)                          *)
(*                                                                         *)
(* Lengths are whole multiples of one length unit, so that every quotient  *)
(* the code forms (np.arange's element count, int(cutoff / dr),            *)
(* int(dist / dr)) is computed exactly.  Normalised densities are exact    *)
(* fractions <<numerator, denominator>>; the common factor 4/3*pi of the   *)
(* shell volume is left out of the denominator of every RDF / PRDF value.  *)
(* Structures are one-dimensional periodic chains: the neighbour search,   *)
(* the primitive-cell reduction and the charge assignment are pymatgen's,  *)
(* and the model only needs what they return.                              *)
(***************************************************************************)
EXTENDS Integers, Sequences, FiniteSets, TLC

\* RDF, PRDF, ReDF: None until constructed, then the two instances of the
\* class, both constructed with the same arguments.
\* last: the most recent call and what it gave back.
VARIABLES RDF, PRDF, ReDF, last

vars == <<RDF, PRDF, ReDF, last>>

(***************************************************************************)
(* Bounds of the model.                                                    *)
(***************************************************************************)
\* largest cutoff handed to a constructor
MaxCutoff == 3
\* largest bin width (bin_size, dr) handed to a constructor
MaxBinSize == 2
\* longest list of structures handed to fit
MaxFitLen == 2

(***************************************************************************)
(* Python values.                                                          *)
(***************************************************************************)
\* Python's None, and a value that is not None
None == <<>>
Some(x) == <<x>>

\* the two instances constructed with the same arguments
Inst == {1, 2}

Abs(x) == IF x < 0 THEN -x ELSE x

Max(a, b) == IF a >= b THEN a ELSE b

\* ceil(a / b), b # 0
CeilDiv(a, b) ==
  LET n == IF b < 0 THEN -a ELSE a
      d == IF b < 0 THEN -b ELSE b
  IN -((-n) \div d)

\* Python's int(a / b): truncation towards zero, b > 0
TruncDiv(a, b) == IF a >= 0 THEN a \div b ELSE -((-a) \div b)

RECURSIVE Gcd(_, _)
Gcd(a, b) == IF b = 0 THEN a ELSE Gcd(b, a % b)

\* the float n / d, d # 0, as a fraction in lowest terms
Frac(n, d) ==
  LET g == Gcd(Abs(n), Abs(d))
      sgn == IF d < 0 THEN -1 ELSE 1
  IN <<sgn * (n \div g), sgn * (d \div g)>>

FAdd(x, y) == Frac(x[1] * y[2] + y[1] * x[2], x[2] * y[2])

\* np.zeros / np.zeros_like: n entries 0.0
zeros(n) == [i \in 1..n |-> Frac(0, 1)]

Cube(x) == x * x * x

(***************************************************************************)
(* numpy.                                                                  *)
(***************************************************************************)
\* np.arange(start, stop, step), step # 0:
\* max(0, ceil((stop - start) / step)) values start + i * step
arange(start, stop, step) ==
  [i \in 1..Max(0, CeilDiv(stop - start, step)) |-> start + (i - 1) * step]

\* np.histogram(distances, bins=edges, density=False)[0]: bin b holds
\* edges[b] <= d < edges[b+1], the last bin also d = edges[-1]
histogram(distances, edges) ==
  [b \in 1..(Len(edges) - 1) |->
     Cardinality({k \in 1..Len(distances) :
        /\ edges[b] <= distances[k]
        /\ \/ distances[k] < edges[b + 1]
           \/ b = Len(edges) - 1 /\ distances[k] = edges[b + 1]})]

\* a[:-1]
ButLast(a) == IF Len(a) = 0 THEN a ELSE SubSeq(a, 1, Len(a) - 1)

RECURSIVE Flatten(_)
\* np.concatenate / np.hstack of a non-empty list of arrays
Flatten(ss) == IF Len(ss) = 0 THEN <<>> ELSE Head(ss) \o Flatten(Tail(ss))

(***************************************************************************)
(* Structures: the inputs s of fit and featurize.                          *)
(***************************************************************************)
\* a site: the species on it (one if the site is ordered), whether they
\* are Specie objects (with an oxidation state) or plain Elements, its
\* position in the cell, and the charge the valence evaluator gives it
Site(spp, specie, pos, q) == [spp |-> spp, specie |-> specie, pos |-> pos, q |-> q]

StructureIds == {"FeO", "FeNi", "FeO2x", "Dis"}

\* cell: the period; diag: the longest space diagonal of the lattice;
\* prim: what SpacegroupAnalyzer(s).find_primitive() returns
Structure(id) ==
  CASE id = "FeO" ->
         [cell |-> 2, volume |-> 8, diag |-> 3, prim |-> Some("FeO"),
          sites |-> <<Site(<<"Fe">>, FALSE, 0, 2), Site(<<"O">>, FALSE, 1, -2)>>]
    [] id = "FeNi" ->
         [cell |-> 3, volume |-> 12, diag |-> 4, prim |-> None,
          sites |-> <<Site(<<"Fe">>, FALSE, 0, 0), Site(<<"Ni">>, FALSE, 1, 0)>>]
    [] id = "FeO2x" ->
         [cell |-> 4, volume |-> 16, diag |-> 5, prim |-> Some("FeO"),
          sites |-> <<Site(<<"Fe">>, TRUE, 0, 2), Site(<<"O">>, TRUE, 1, -2),
                      Site(<<"Fe">>, TRUE, 2, 2), Site(<<"O">>, TRUE, 3, -2)>>]
    [] id = "Dis" ->
         [cell |-> 2, volume |-> 8, diag |-> 3, prim |-> Some("Dis"),
          sites |-> <<Site(<<"Fe", "Ni">>, FALSE, 0, 2), Site(<<"O">>, FALSE, 1, -2)>>]

\* s.is_ordered
is_ordered(s) == \A i \in 1..Len(s.sites) : Len(s.sites[i].spp) = 1

\* s.num_sites
num_sites(s) == Len(s.sites)

\* s.get_neighbors(site i, r): every periodic image of every site at a
\* distance 0 < d <= r (r inclusive), as (site, distance)
get_neighbors(s, i, r) ==
  LET N == Len(s.sites)
      W == 2 * (r + 1) + 1
      cand == [k \in 1..(W * N) |->
                 LET img == ((k - 1) \div N) - (r + 1)
                     j == ((k - 1) % N) + 1
                 IN <<j, Abs(s.sites[j].pos + img * s.cell - s.sites[i].pos)>>]
  IN SelectSeq(cand, LAMBDA e : e[2] > 0 /\ e[2] <= r)

\* s.get_all_neighbors(r): one neighbour list per site
get_all_neighbors(s, r) == [i \in 1..Len(s.sites) |-> get_neighbors(s, i, r)]

(***************************************************************************)
(* What a call gives back: a return value or a raised error.               *)
(***************************************************************************)
\* value: Some(v) for a returned v, None for a raised error
Return(v) == [kind |-> "ok", value |-> Some(v)]

\* "UnsupportedStructure": ValueError("Disordered structure support not built yet")
\* "NotFitted":            Exception("You must run 'fit' first!")
\* "InvalidConfiguration": ValueError("width of bins for ReDF must be >0")
\* "LibraryError":         an exception raised inside numpy or pymatgen
Raise(e) == [kind |-> e, value |-> None]

(***************************************************************************)
(* RadialDistributionFunction                                              *)
(***************************************************************************)
RDF_init(cutoff, bin_size) == [cutoff |-> cutoff, bin_size |-> bin_size]

\* the bin edges np.arange(0, self.cutoff + self.bin_size, self.bin_size)
RDF_bins(self) == arange(0, self.cutoff + self.bin_size, self.bin_size)

\* the value returned for an ordered structure and usable bin edges
RDF_distribution(self, s) ==
  LET neighbors_lst == get_all_neighbors(s, self.cutoff)
      all_distances ==
        Flatten([i \in 1..Len(neighbors_lst) |->
                   [k \in 1..Len(neighbors_lst[i]) |-> neighbors_lst[i][k][2]]])
      dist_bins == RDF_bins(self)
      dist_hist == histogram(all_distances, dist_bins)
      \* dist_hist / shell_vol / number_density, number_density = num_sites / volume
      rdf == [b \in 1..Len(dist_hist) |->
                Frac(dist_hist[b] * s.volume,
                     (Cube(dist_bins[b + 1]) - Cube(dist_bins[b])) * num_sites(s))]
  IN [distances |-> ButLast(dist_bins), distribution |-> rdf]

\* featurize(s): the set of outcomes the call can have, each with the
\* instance as it is left and the bin edges it built.  With bin_size = 0
\* np.arange raises; with bin_size < 0 it returns no edges, and whether
\* np.histogram then raises or returns no bins depends on the numpy in use.
RDF_featurize(self, s) ==
  IF ~is_ordered(s)
    THEN {[self |-> self, out |-> Raise("UnsupportedStructure"), edges |-> None]}
  ELSE IF self.bin_size = 0
    THEN {[self |-> self, out |-> Raise("LibraryError"), edges |-> None]}
  ELSE IF self.bin_size < 0
    THEN {[self |-> self, out |-> Raise("LibraryError"), edges |-> Some(RDF_bins(self))],
          [self |-> self, out |-> Return(RDF_distribution(self, s)),
           edges |-> Some(RDF_bins(self))]}
  ELSE {[self |-> self, out |-> Return(RDF_distribution(self, s)),
         edges |-> Some(RDF_bins(self))]}

(***************************************************************************)
(* PartialRadialDistributionFunction                                       *)
(***************************************************************************)
PRDF_init(cutoff, bin_size, include_elems, exclude_elems) ==
  [cutoff |-> cutoff, bin_size |-> bin_size, elements_ |-> None,
   include_elems |-> include_elems, exclude_elems |-> exclude_elems]

Range(seq) == {seq[i] : i \in 1..Len(seq)}

\* the order of pymatgen's Element objects (by electronegativity), which
\* sorted(elements) uses: Li 0.98 < Fe 1.83 < Ni 1.91 < O 3.44
ElementOrder == <<"Li", "Fe", "Ni", "O">>

\* Element(e) of a symbol: an element is <<symbol>>, a Specie with an
\* oxidation state is <<symbol, oxi_state>>
Element(e) == <<e>>

\* strc.composition.keys(): the Element or Specie objects of the structure
composition_keys(s) ==
  UNION {{IF s.sites[i].specie THEN <<s.sites[i].spp[k], s.sites[i].q>>
                               ELSE <<s.sites[i].spp[k]>> :
            k \in 1..Len(s.sites[i].spp)} : i \in 1..Len(s.sites)}

RECURSIVE fit_update(_, _)
\* the loop over X: elements.update(e.element if isinstance(e, Specie) else e)
fit_update(elements, X) ==
  IF Len(X) = 0 THEN elements
  ELSE fit_update(
         elements \cup {IF Len(e) = 2 THEN Element(e[1]) ELSE e :
                          e \in composition_keys(Structure(Head(X)))},
         Tail(X))

\* [e.symbol for e in sorted(elements)]
sorted_symbols(elements) ==
  SelectSeq(ElementOrder, LAMBDA sym : Element(sym) \in elements)

RECURSIVE AppendNew(_, _)
AppendNew(seq, more) ==
  IF Len(more) = 0 THEN seq
  ELSE AppendNew(IF Head(more) \in Range(seq) THEN seq ELSE Append(seq, Head(more)),
                 Tail(more))

RECURSIVE SeenOrder(_, _)
\* the symbols of the structures of X in the order they are met
SeenOrder(seq, X) ==
  IF Len(X) = 0 THEN seq
  ELSE SeenOrder(
         AppendNew(seq, LET st == Structure(Head(X))
                        IN Flatten([i \in 1..Len(st.sites) |-> st.sites[i].spp])),
         Tail(X))

\* fit that stores the elements in the order met, without sorting them
PRDF_fit_unsorted(self, X) ==
  [self EXCEPT !.elements_ =
     Some(SelectSeq(SeenOrder(AppendNew(<<>>, self.include_elems), X),
                    LAMBDA sym : sym \notin Range(self.exclude_elems)))]

\* fit(X): returns self with the vocabulary stored
PRDF_fit(self, X) ==
  LET included == {Element(e) : e \in Range(self.include_elems)}
      seen == fit_update(included, X)
      elements == seen \ {Element(e) : e \in Range(self.exclude_elems)}
  IN [self EXCEPT !.elements_ = Some(sorted_symbols(elements))]

\* _make_bins that forgets the padding by one bin width
PRDF_make_bins_unpadded(self) == arange(0, self.cutoff, self.bin_size)

\* _make_bins(): np.arange(0, self.cutoff + self.bin_size, self.bin_size)
PRDF_make_bins(self) == arange(0, self.cutoff + self.bin_size, self.bin_size)

\* get_symbol(site) of a site of an ordered structure
get_symbol(site) == site.spp[1]

\* s.composition.fractional_composition.to_reduced_dict of an ordered
\* structure: symbol -> fraction of the sites
composition(s) ==
  [sym \in {get_symbol(s.sites[i]) : i \in 1..Len(s.sites)} |->
     Frac(Cardinality({i \in 1..Len(s.sites) : get_symbol(s.sites[i]) = sym}),
          num_sites(s))]

\* itertools.combinations_with_replacement(pool, 2)
combinations_with_replacement(pool) ==
  LET n == Len(pool)
      all == [k \in 1..(n * n) |-> <<((k - 1) \div n) + 1, ((k - 1) % n) + 1>>]
      keep == SelectSeq(all, LAMBDA ij : ij[1] <= ij[2])
  IN [k \in 1..Len(keep) |-> <<pool[keep[k][1]], pool[keep[k][2]]>>]

\* compute_prdf(s) of an ordered structure: (dist_bins[:-1], prdf)
PRDF_compute_prdf(self, s) ==
  LET comp == composition(s)
      neighbors_lst == get_all_neighbors(s, self.cutoff)
      distances_by_type ==
        [p \in (DOMAIN comp) \X (DOMAIN comp) |->
           Flatten([i \in 1..Len(s.sites) |->
              IF get_symbol(s.sites[i]) # p[1] THEN <<>>
              ELSE LET mine == SelectSeq(neighbors_lst[i],
                                 LAMBDA nb : get_symbol(s.sites[nb[1]]) = p[2])
                   IN [k \in 1..Len(mine) |-> mine[k][2]]])]
      dist_bins == PRDF_make_bins(self)
      prdf ==
        [key \in DOMAIN distances_by_type |->
           LET dist_hist == histogram(distances_by_type[key], dist_bins)
               \* n_alpha = composition[key[0]] * s.num_sites
               n_alpha == Frac(comp[key[1]][1] * num_sites(s), comp[key[1]][2])
           IN [b \in 1..Len(dist_hist) |->
                 Frac(dist_hist[b] * n_alpha[2],
                      (Cube(dist_bins[b + 1]) - Cube(dist_bins[b])) * n_alpha[1])]]
  IN <<ButLast(dist_bins), prdf>>

\* the feature array of a fitted instance for an ordered structure;
\* np.hstack raises ValueError on an empty list of arrays
PRDF_stack(self, s) ==
  LET computed == PRDF_compute_prdf(self, s)
      dist_bins == computed[1]
      prdf == computed[2]
      keys == combinations_with_replacement(self.elements_[1])
      output == [k \in 1..Len(keys) |->
                   IF keys[k] \in DOMAIN prdf THEN prdf[keys[k]]
                                              ELSE zeros(Len(dist_bins))]
  IN IF Len(output) = 0 THEN Raise("LibraryError") ELSE Return(Flatten(output))

\* featurize that fits itself to the structure when no vocabulary is stored
PRDF_featurize_autofit(self, s) ==
  IF ~is_ordered(s)
    THEN {[self |-> self, out |-> Raise("UnsupportedStructure"), edges |-> None]}
  ELSE IF self.bin_size <= 0
    THEN {[self |-> self, out |-> Raise("LibraryError"), edges |-> None]}
  ELSE LET fitted == IF self.elements_ = None
                       THEN [self EXCEPT !.elements_ =
                               Some(sorted_symbols({Element(e) : e \in DOMAIN composition(s)}))]
                       ELSE self
       IN {[self |-> fitted, out |-> PRDF_stack(fitted, s),
            edges |-> Some(PRDF_make_bins(fitted))]}

\* featurize that adds the elements of the structure to the vocabulary
PRDF_featurize_extend(self, s) ==
  IF ~is_ordered(s)
    THEN {[self |-> self, out |-> Raise("UnsupportedStructure"), edges |-> None]}
  ELSE IF self.elements_ = None
    THEN {[self |-> self, out |-> Raise("NotFitted"), edges |-> None]}
  ELSE IF self.bin_size <= 0
    THEN {[self |-> self, out |-> Raise("LibraryError"), edges |-> None]}
  ELSE LET grown == [self EXCEPT !.elements_ =
                       Some(sorted_symbols({Element(e) : e \in
                              Range(self.elements_[1]) \cup DOMAIN composition(s)}))]
       IN {[self |-> grown, out |-> PRDF_stack(grown, s),
            edges |-> Some(PRDF_make_bins(grown))]}

\* featurize(s): the set of outcomes the call can have.  With bin_size = 0
\* np.arange raises; with bin_size < 0 it returns no edges, and whether
\* np.histogram then raises or returns no bins depends on the numpy in use.
PRDF_featurize(self, s) ==
  IF ~is_ordered(s)
    THEN {[self |-> self, out |-> Raise("UnsupportedStructure"), edges |-> None]}
  ELSE IF self.elements_ = None
    THEN {[self |-> self, out |-> Raise("NotFitted"), edges |-> None]}
  ELSE IF self.bin_size = 0
    THEN {[self |-> self, out |-> Raise("LibraryError"), edges |-> None]}
  ELSE IF self.bin_size < 0
    THEN {[self |-> self, out |-> Raise("LibraryError"),
           edges |-> Some(PRDF_make_bins(self))],
          [self |-> self, out |-> PRDF_stack(self, s),
           edges |-> Some(PRDF_make_bins(self))]}
  ELSE {[self |-> self, out |-> PRDF_stack(self, s),
         edges |-> Some(PRDF_make_bins(self))]}

\* feature_labels(): "{}-{} PRDF r={:.2f}-{:.2f}".format(e1, e2, r_start,
\* r_end) is kept as <<e1, e2, r_start, r_end>>: two decimals print a whole
\* number of length units exactly
PRDF_feature_labels(self) ==
  IF self.elements_ = None
    THEN [self |-> self, out |-> Raise("NotFitted"), edges |-> None]
  ELSE IF self.bin_size = 0
    THEN [self |-> self, out |-> Raise("LibraryError"), edges |-> None]
  ELSE LET bin_edges == PRDF_make_bins(self)
           pairs == combinations_with_replacement(self.elements_[1])
           labels ==
             Flatten([k \in 1..Len(pairs) |->
                        [b \in 1..(Len(bin_edges) - 1) |->
                           <<pairs[k][1], pairs[k][2], bin_edges[b], bin_edges[b + 1]>>]])
       IN [self |-> self, out |-> Return(labels), edges |-> Some(bin_edges)]

(***************************************************************************)
(* ElectronicRadialDistributionFunction                                    *)
(***************************************************************************)
ReDF_init(cutoff, dr) == [cutoff |-> cutoff, dr |-> dr]

\* SpacegroupAnalyzer(s).find_primitive() or s
ReDF_primitive(s) == IF s.prim = None THEN s ELSE Structure(s.prim[1])

\* a bin count without the bin that holds the cutoff itself
ReDF_nbins_short(cutoff, dr) == TruncDiv(cutoff, dr)

\* nbins = int(self.cutoff / self.dr) + 1
ReDF_nbins(cutoff, dr) == TruncDiv(cutoff, dr) + 1

\* the loop over the sites and their neighbours: for each neighbour its
\* distance, bin_index = int(dist / self.dr) and the addend
\* (this_charge * neigh_charge) / (struct.num_sites * dist)
ReDF_hits(struct, cutoff, dr) ==
  Flatten([i \in 1..Len(struct.sites) |->
     LET neighbors == get_neighbors(struct, i, cutoff)
     IN [k \in 1..Len(neighbors) |->
           [dist |-> neighbors[k][2],
            bin_index |-> TruncDiv(neighbors[k][2], dr),
            add |-> Frac(struct.sites[i].q * struct.sites[neighbors[k][1]].q,
                         num_sites(struct) * neighbors[k][2])]]])

RECURSIVE ReDF_sum(_, _)
\* redf_dict["distribution"][b] after the loop
ReDF_sum(hits, b) ==
  IF Len(hits) = 0 THEN Frac(0, 1)
  ELSE LET rest == ReDF_sum(Tail(hits), b)
       IN IF Head(hits).bin_index = b THEN FAdd(Head(hits).add, rest) ELSE rest

\* featurize(s): the set of outcomes the call can have, each with the
\* instance as it is left and, once the bins are allocated, their number
\* and the neighbours binned.  There is no is_ordered test: on a disordered
\* structure the call fails inside pymatgen, in ValenceIonicRadiusEvaluator
\* (before the cutoff is derived) or at site.specie (after it).  An
\* accumulation outside the array raises IndexError.
ReDF_featurize(self, s) ==
  IF self.dr <= 0
    THEN {[self |-> self, out |-> Raise("InvalidConfiguration"), trace |-> None]}
  ELSE
    LET struct == ReDF_primitive(s)
        cutoff == IF self.cutoff = None THEN struct.diag ELSE self.cutoff[1]
        after == [self EXCEPT !.cutoff = Some(cutoff)]
        nbins == ReDF_nbins(cutoff, self.dr)
        distances == [b \in 1..nbins |-> Frac((2 * (b - 1) + 1) * self.dr, 2)]
    IN IF ~is_ordered(struct)
         THEN {[self |-> self, out |-> Raise("LibraryError"), trace |-> None],
               [self |-> after, out |-> Raise("LibraryError"),
                trace |-> Some([nbins |-> nbins, hits |-> <<>>])]}
       ELSE
         LET hits == ReDF_hits(struct, cutoff, self.dr)
             trace == Some([nbins |-> nbins, hits |-> hits])
         IN IF \E k \in 1..Len(hits) : hits[k].bin_index >= nbins
              THEN {[self |-> after, out |-> Raise("LibraryError"), trace |-> trace]}
            ELSE {[self |-> after,
                   out |-> Return([distances |-> distances,
                                   distribution |->
                                     [b \in 1..nbins |-> ReDF_sum(hits, b - 1)]]),
                   trace |-> trace]}

(***************************************************************************)
(* The state machine: a caller constructs two instances of one class with  *)
(* the same arguments and then calls their methods in any order.           *)
(***************************************************************************)
\* cutoffs handed to a constructor: positive distances
Cutoffs == 1..MaxCutoff

\* bin widths, the non-positive ones -1 and 0 included
BinSizes == (-1)..MaxBinSize

IncludeChoices == {<<>>, <<"O", "Li">>}

ExcludeChoices == {<<>>, <<"O", "Ni">>}

\* the lists of structures fit is called with
FitLists == UNION {[1..n -> StructureIds] : n \in 0..MaxFitLen}

Call(engine, i, op, s, X, out, edges, trace) ==
  [engine |-> engine, inst |-> i, op |-> op, s |-> s, X |-> X,
   out |-> out, edges |-> edges, trace |-> trace]

Init ==
  /\ RDF = None
  /\ PRDF = None
  /\ ReDF = None
  /\ last = Call("-", 0, "-", "-", <<>>, Raise("-"), None, None)

Unconstructed == RDF = None /\ PRDF = None /\ ReDF = None

ConstructRDF ==
  /\ Unconstructed
  /\ \E cutoff \in Cutoffs, bin_size \in BinSizes :
       /\ RDF' = [i \in Inst |-> RDF_init(cutoff, bin_size)]
       /\ last' = Call("RDF", 0, "__init__", "-", <<>>, Return(None), None, None)
  /\ UNCHANGED <<PRDF, ReDF>>

ConstructPRDF ==
  /\ Unconstructed
  /\ \E cutoff \in Cutoffs, bin_size \in BinSizes,
        inc \in IncludeChoices, exc \in ExcludeChoices :
       /\ PRDF' = [i \in Inst |-> PRDF_init(cutoff, bin_size, inc, exc)]
       /\ last' = Call("PRDF", 0, "__init__", "-", <<>>, Return(None), None, None)
  /\ UNCHANGED <<RDF, ReDF>>

ConstructReDF ==
  /\ Unconstructed
  /\ \E cutoff \in {None} \cup {Some(c) : c \in Cutoffs}, dr \in BinSizes :
       /\ ReDF' = [i \in Inst |-> ReDF_init(cutoff, dr)]
       /\ last' = Call("ReDF", 0, "__init__", "-", <<>>, Return(None), None, None)
  /\ UNCHANGED <<RDF, PRDF>>

RDFFeaturize ==
  /\ RDF # None
  /\ \E i \in Inst, s \in StructureIds :
       \E r \in RDF_featurize(RDF[i], Structure(s)) :
         /\ RDF' = [RDF EXCEPT ![i] = r.self]
         /\ last' = Call("RDF", i, "featurize", s, <<>>, r.out, r.edges, None)
  /\ UNCHANGED <<PRDF, ReDF>>

PRDFFit ==
  /\ PRDF # None
  /\ \E i \in Inst, X \in FitLists :
       /\ PRDF' = [PRDF EXCEPT ![i] = PRDF_fit(PRDF[i], X)]
       /\ last' = Call("PRDF", i, "fit", "-", X, Return(None), None, None)
  /\ UNCHANGED <<RDF, ReDF>>

PRDFFeaturize ==
  /\ PRDF # None
  /\ \E i \in Inst, s \in StructureIds :
       \E r \in PRDF_featurize(PRDF[i], Structure(s)) :
         /\ PRDF' = [PRDF EXCEPT ![i] = r.self]
         /\ last' = Call("PRDF", i, "featurize", s, <<>>, r.out, r.edges, None)
  /\ UNCHANGED <<RDF, ReDF>>

PRDFFeatureLabels ==
  /\ PRDF # None
  /\ \E i \in Inst :
       LET r == PRDF_feature_labels(PRDF[i])
       IN /\ PRDF' = [PRDF EXCEPT ![i] = r.self]
          /\ last' = Call("PRDF", i, "feature_labels", "-", <<>>, r.out, r.edges, None)
  /\ UNCHANGED <<RDF, ReDF>>

ReDFFeaturize ==
  /\ ReDF # None
  /\ \E i \in Inst, s \in StructureIds :
       \E r \in ReDF_featurize(ReDF[i], Structure(s)) :
         /\ ReDF' = [ReDF EXCEPT ![i] = r.self]
         /\ last' = Call("ReDF", i, "featurize", s, <<>>, r.out, None, r.trace)
  /\ UNCHANGED <<RDF, PRDF>>

Next ==
  \/ ConstructRDF
  \/ ConstructPRDF
  \/ ConstructReDF
  \/ RDFFeaturize
  \/ PRDFFit
  \/ PRDFFeaturize
  \/ PRDFFeatureLabels
  \/ ReDFFeaturize

Spec == Init /\ [][Next]_vars

(***************************************************************************)
(* Properties.                                                             *)
(***************************************************************************)
LastIs(engine, op) == last.engine = engine /\ last.op = op

\* the arguments of the step just taken, read in the state it leads to
StepIs(engine, op, i) == last'.engine = engine /\ last'.op = op /\ last'.inst = i

\* C(k+1, 2): the number of unordered pairs, with repetition, of k elements
PairCount(k) == (k * (k + 1)) \div 2

\* the place of a symbol in the canonical order of the elements
Rank(sym) == CHOOSE r \in 1..Len(ElementOrder) : ElementOrder[r] = sym

\* the symbols of the base elements of a structure
BaseElements(id) ==
  UNION {Range(Structure(id).sites[i].spp) : i \in 1..Len(Structure(id).sites)}

\* every reordering of a list
Reorderings(X) ==
  {[k \in 1..Len(X) |-> X[f[k]]] :
     f \in {g \in [1..Len(X) -> 1..Len(X)] :
              \A a, b \in 1..Len(X) : a # b => g[a] # g[b]}}

\* C1: on a PRDF instance without a vocabulary, featurize of an ordered
\* structure and feature_labels fail with NotFitted, return nothing and
\* leave the vocabulary absent; only fit ever establishes a vocabulary.
C1_UnfittedFailsNotFitted ==
  [][PRDF # None =>
       \A i \in Inst :
         PRDF[i].elements_ = None =>
           /\ ( /\ StepIs("PRDF", "featurize", i)
                /\ is_ordered(Structure(last'.s)) )
                => /\ last'.out.kind = "NotFitted"
                   /\ last'.out.value = None
                   /\ PRDF'[i].elements_ = None
           /\ StepIs("PRDF", "feature_labels", i)
                => /\ last'.out.kind = "NotFitted"
                   /\ last'.out.value = None
                   /\ PRDF'[i].elements_ = None
           /\ PRDF'[i].elements_ # None => StepIs("PRDF", "fit", i)]_vars

C1_Witness ==
  /\ LastIs("PRDF", "featurize")
  /\ is_ordered(Structure(last.s))
  /\ last.out.kind = "NotFitted"
  /\ PRDF[last.inst].elements_ = None

\* C2 (as claimed): a fitted PRDF instance with a positive bin width
\* returns, for every ordered structure, C(k+1,2) * nbins values, with
\* all-zero blocks for the pairs absent from the structure, and
\* feature_labels returns as many labels, pair-major and bin-minor.
C2_FixedLengthAsClaimed ==
  ( /\ LastIs("PRDF", "featurize")
    /\ is_ordered(Structure(last.s))
    /\ PRDF[last.inst].elements_ # None
    /\ PRDF[last.inst].bin_size > 0 )
  => LET self == PRDF[last.inst]
         s == Structure(last.s)
         vocab == self.elements_[1]
         nbins == Len(PRDF_make_bins(self)) - 1
         pairs == combinations_with_replacement(vocab)
         labels == PRDF_feature_labels(self).out
     IN /\ last.out.kind = "ok"
        /\ Len(last.out.value[1]) = PairCount(Len(vocab)) * nbins
        /\ \A k \in 1..Len(pairs) :
             ~({pairs[k][1], pairs[k][2]} \subseteq BaseElements(last.s))
               => \A b \in 1..nbins :
                    last.out.value[1][(k - 1) * nbins + b] = Frac(0, 1)
        /\ labels.kind = "ok"
        /\ Len(labels.value[1]) = Len(last.out.value[1])
        /\ \A k \in 1..Len(pairs) : \A b \in 1..nbins :
             /\ labels.value[1][(k - 1) * nbins + b][1] = pairs[k][1]
             /\ labels.value[1][(k - 1) * nbins + b][2] = pairs[k][2]
             /\ labels.value[1][(k - 1) * nbins + b][3] = (b - 1) * self.bin_size

\* C3 (as claimed): once established, the vocabulary of a PRDF instance is
\* never changed by any later call.
C3_WrittenOnceAsClaimed ==
  [][PRDF # None =>
       \A i \in Inst :
         PRDF[i].elements_ # None => PRDF'[i].elements_ = PRDF[i].elements_]_vars

\* C3 (amended): once established, the vocabulary never becomes absent
\* again and is never changed by featurize or feature_labels; only a later
\* fit on the same instance changes it, to the vocabulary of that fit's
\* own structures.
C3_OnlyFitRewrites ==
  [][PRDF # None =>
       \A i \in Inst :
         PRDF[i].elements_ # None =>
           /\ PRDF'[i].elements_ # None
           /\ \/ PRDF'[i].elements_ = PRDF[i].elements_
              \/ /\ StepIs("PRDF", "fit", i)
                 /\ Range(PRDF'[i].elements_[1]) =
                      (Range(PRDF[i].include_elems)
                         \cup UNION {BaseElements(last'.X[k]) : k \in 1..Len(last'.X)})
                      \ Range(PRDF[i].exclude_elems)]_vars

C3_Witness ==
  /\ LastIs("PRDF", "featurize")
  /\ last.out.kind = "ok"
  /\ PRDF[last.inst].elements_ # None
  /\ ~(BaseElements(last.s) \subseteq Range(PRDF[last.inst].elements_[1]))

\* C4: fit stores (included elements UNION base elements of the given
\* structures) MINUS excluded elements, without repetition and in canonical
\* order; the result is the same for every reordering of the list and for
\* the list repeated; {Fe,O} and {Fe,Ni} with default include and exclude
\* give Fe, Ni, O.
C4_FitVocabulary ==
  LastIs("PRDF", "fit") =>
    LET self == PRDF[last.inst]
        vocab == self.elements_[1]
        X == last.X
    IN /\ self.elements_ # None
       /\ Range(vocab) =
            (Range(self.include_elems) \cup UNION {BaseElements(X[k]) : k \in 1..Len(X)})
            \ Range(self.exclude_elems)
       /\ \A a, b \in 1..Len(vocab) : a < b => Rank(vocab[a]) < Rank(vocab[b])
       /\ \A Y \in Reorderings(X) : PRDF_fit(self, Y).elements_ = self.elements_
       /\ PRDF_fit(self, X \o X).elements_ = self.elements_
       /\ \A e \in Range(self.include_elems) \cap Range(self.exclude_elems) :
            e \notin Range(vocab)
       /\ ( /\ self.include_elems = <<>>
            /\ self.exclude_elems = <<>>
            /\ X \in {<<"FeO", "FeNi">>, <<"FeNi", "FeO">>} )
            => vocab = <<"Fe", "Ni", "O">>

C4_Witness ==
  /\ LastIs("PRDF", "fit")
  /\ last.X = <<"FeNi", "FeO2x">>
  /\ PRDF[last.inst].include_elems = <<"O", "Li">>
  /\ PRDF[last.inst].exclude_elems = <<"O", "Ni">>
  /\ PRDF[last.inst].elements_ = Some(<<"Li", "Fe">>)

\* C5 (as claimed): featurize of a structure that is not fully ordered, on
\* any of the three classes (configured with a positive bin width), fails
\* with UnsupportedStructure before anything is computed.
C5_DisorderedRejectedAsClaimed ==
  ( /\ last.op = "featurize"
    /\ ~is_ordered(Structure(last.s))
    /\ last.engine = "ReDF" => ReDF[last.inst].dr > 0 )
  => /\ last.out.kind = "UnsupportedStructure"
     /\ last.edges = None
     /\ last.trace = None

\* C6 (as claimed): no ReDF instance is ever constructed with dr = 0, and a
\* featurize call on an instance whose bin width is not positive fails with
\* InvalidConfiguration.
C6_NonPositiveWidthRejectedAsClaimed ==
  /\ ReDF # None => \A i \in Inst : ReDF[i].dr # 0
  /\ ( /\ last.op = "featurize"
       /\ \/ last.engine = "RDF" /\ RDF[last.inst].bin_size <= 0
          \/ last.engine = "PRDF" /\ PRDF[last.inst].bin_size <= 0
          \/ last.engine = "ReDF" /\ ReDF[last.inst].dr <= 0 )
     => last.out.kind = "InvalidConfiguration"

\* the configuration the bin edges of the last call were built from
EdgesOwner == IF last.engine = "RDF" THEN RDF[last.inst] ELSE PRDF[last.inst]

\* C7 (as claimed): with cutoff > 0 and bin_size > 0 the bin edges are
\* floor(cutoff / bin_size) + 2 strictly increasing values starting at 0.
C7_EdgeCountAsClaimed ==
  (last.edges # None /\ EdgesOwner.bin_size > 0) =>
    LET edges == last.edges[1]
    IN /\ Len(edges) = (EdgesOwner.cutoff \div EdgesOwner.bin_size) + 2
       /\ edges[1] = 0
       /\ \A k \in 1..(Len(edges) - 1) : edges[k] < edges[k + 1]

\* C7 (amended): with cutoff > 0 and bin_size > 0 the bin edges are the
\* ceil(cutoff / bin_size) + 1 values 0, bin_size, 2 * bin_size, ..., strictly
\* increasing and ending at the first multiple >= cutoff: that is
\* floor(cutoff / bin_size) + 2 values when cutoff is no multiple of bin_size
\* and cutoff / bin_size + 1 values when it is.
C7_EdgeCount ==
  (last.edges # None /\ EdgesOwner.bin_size > 0) =>
    LET edges == last.edges[1]
        c == EdgesOwner.cutoff
        w == EdgesOwner.bin_size
    IN /\ Len(edges) = IF c % w = 0 THEN (c \div w) + 1 ELSE (c \div w) + 2
       /\ edges[1] = 0
       /\ \A k \in 1..(Len(edges) - 1) : edges[k] < edges[k + 1]
       /\ \A k \in 1..Len(edges) : edges[k] = (k - 1) * w
       /\ edges[Len(edges)] >= c
       /\ edges[Len(edges) - 1] < c

C7_Witness ==
  /\ last.edges # None
  /\ last.out.kind = "ok"
  /\ EdgesOwner.bin_size > 1
  /\ EdgesOwner.cutoff % EdgesOwner.bin_size = 0
  /\ Len(last.edges[1]) = (EdgesOwner.cutoff \div EdgesOwner.bin_size) + 1

\* what the caller sees of a set of possible outcomes
Outs(results) == {r.out : r \in results}

\* C8 (as claimed): two instances constructed with the same arguments (for
\* PRDF: holding the same vocabulary) give the same result for every
\* structure, whatever was featurized on either of them before.
C8_PureAsClaimed ==
  \A s \in StructureIds :
    /\ RDF # None =>
         Outs(RDF_featurize(RDF[1], Structure(s))) =
         Outs(RDF_featurize(RDF[2], Structure(s)))
    /\ (PRDF # None /\ PRDF[1].elements_ = PRDF[2].elements_) =>
         Outs(PRDF_featurize(PRDF[1], Structure(s))) =
         Outs(PRDF_featurize(PRDF[2], Structure(s)))
    /\ ReDF # None =>
         Outs(ReDF_featurize(ReDF[1], Structure(s))) =
         Outs(ReDF_featurize(ReDF[2], Structure(s)))

\* C9 (as claimed): a ReDF cutoff that is set is never changed by
\* featurize; while it is unset, a call that fails the dr > 0 check leaves
\* it unset and a call that passes the check sets it to the longest space
\* diagonal of that call's primitive cell.
C9_CutoffSetOnceAsClaimed ==
  [][(ReDF # None /\ last'.engine = "ReDF" /\ last'.op = "featurize") =>
       LET i == last'.inst
           struct == ReDF_primitive(Structure(last'.s))
       IN /\ \A j \in Inst :
               ReDF[j].cutoff # None => ReDF'[j].cutoff = ReDF[j].cutoff
          /\ (ReDF[i].cutoff = None /\ ReDF[i].dr <= 0) => ReDF'[i].cutoff = None
          /\ (ReDF[i].cutoff = None /\ ReDF[i].dr > 0)
               => ReDF'[i].cutoff = Some(struct.diag)]_vars

\* C10: in a ReDF featurize call with dr > 0 the bins number
\* floor(cutoff / dr) + 1, every neighbour (0 < d <= cutoff) is added into
\* bin floor(d / dr), which lies in [0, nbins), so that on an ordered cell
\* the call returns, and 'distances' and 'distribution' have nbins entries.
C10_BinsInRange ==
  (LastIs("ReDF", "featurize") /\ ReDF[last.inst].dr > 0) =>
    LET self == ReDF[last.inst]
    IN /\ last.trace # None =>
            /\ self.cutoff # None
            /\ last.trace[1].nbins = (self.cutoff[1] \div self.dr) + 1
            /\ \A k \in 1..Len(last.trace[1].hits) :
                 LET h == last.trace[1].hits[k]
                 IN /\ 0 < h.dist /\ h.dist <= self.cutoff[1]
                    /\ h.bin_index = h.dist \div self.dr
                    /\ 0 <= h.bin_index /\ h.bin_index < last.trace[1].nbins
       /\ is_ordered(ReDF_primitive(Structure(last.s))) => last.out.kind = "ok"
       /\ last.out.kind = "ok" =>
            /\ last.trace # None
            /\ Len(last.out.value[1].distances) = last.trace[1].nbins
            /\ Len(last.out.value[1].distribution) = last.trace[1].nbins

C10_Witness ==
  /\ LastIs("ReDF", "featurize")
  /\ last.out.kind = "ok"
  /\ ReDF[last.inst].cutoff[1] % ReDF[last.inst].dr = 0
  /\ ReDF[last.inst].cutoff[1] # ReDF_primitive(Structure(last.s)).diag
  /\ \E k \in 1..Len(last.trace[1].hits) :
       /\ last.trace[1].hits[k].dist = ReDF[last.inst].cutoff[1]
       /\ last.trace[1].hits[k].bin_index = last.trace[1].nbins - 1

====
